---- MODULE Spec2Model ----
(***************************************************************************)
(* A model of the smart-store batch pipeline:                              *)
(*   scripts/etl_to_dw.py                       the warehouse loader       *)
(*   scripts/data_preparation/prepare_sales_data.py   the sales preparer   *)
(*   scripts/olap_cubing.py                     the cube builder           *)
(* Each script is a run-to-completion program; each has its own group of   *)
(* variables and its own specification (SpecLoad, SpecOutliers, SpecSales, *)
(* SpecCube).  While one program runs, the variables of the others keep    *)
(* their idle values.                                                      *)
(***************************************************************************)
EXTENDS Integers, Sequences, FiniteSets, TLC

VARIABLES
    \* ---- etl_to_dw.py ----
    db,             \* the committed content of data/dw/smart_sales.db
    tx,             \* what the open connection sees (db plus uncommitted work)
    in_transaction, \* sqlite3.Connection.in_transaction
    pc,             \* the statement of load_data_to_db that runs next
    dfs,            \* customers_df, products_df, sales_df (primary keys, in file order)
    error,          \* the exception that is propagating, "none" if none
    runs,           \* how many times load_data_to_db was started
    pre,            \* history: db when the current run connected
    ops,            \* history: the row statements the current run executed
    outcomes,       \* history: the error each finished run ended with
    \* ---- prepare_sales_data.py ----
    s_raw,          \* data/raw/sales_data.csv as read_raw_data returns it
    s_df,           \* main's local df
    s_scrubber,     \* the DataFrame the DataScrubber holds (scrubber.df)
    s_saved,        \* data/prepared/sales_data_prepared.csv
    s_pc,           \* the statement of main that runs next
    s_steps,        \* history: the cleaning steps main has run, in order
    s_log,          \* what remove_outliers logged: its input and its two counts
    \* ---- prepare_products_data.py ----
    p_raw,          \* data/raw/products_data.csv as read_raw_data returns it
    p_df,           \* main's local df
    p_scrubber,     \* the DataFrame the DataScrubber holds (scrubber.df)
    p_saved,        \* data/prepared/products_data_prepared.csv
    p_pc,           \* the statement of main that runs next
    p_steps,        \* history: the cleaning steps main has run, in order
    \* ---- olap_cubing.py ----
    c_table,        \* the rows of the warehouse's sales table
    c_sales_df,     \* sales_df
    c_dimensions,   \* the dimensions create_olap_cube was called with
    c_metrics,      \* the metrics create_olap_cube was called with
    c_cube,         \* what create_olap_cube returned, or the error it raised
    c_pc,           \* the statement of main that runs next
    \* ---- olap_cubing.py: generate_column_names on its own ----
    n_dimensions,   \* its dimensions argument
    n_metrics,      \* its metrics argument
    n_names,        \* the list it returned
    n_pc            \* "generate_column_names" before the call, "done" after

loadVars == <<db, tx, in_transaction, pc, dfs, error, runs, pre, ops, outcomes>>

salesVars == <<s_raw, s_df, s_scrubber, s_saved, s_pc, s_steps, s_log>>

cubeVars == <<c_table, c_sales_df, c_dimensions, c_metrics, c_cube, c_pc>>

productsVars == <<p_raw, p_df, p_scrubber, p_saved, p_pc, p_steps>>

namesVars == <<n_dimensions, n_metrics, n_names, n_pc>>

vars == <<loadVars, salesVars, productsVars, cubeVars, namesVars>>

\* ------------------------------------------------------------------------
\* Bounds
\* ------------------------------------------------------------------------
MaxId == 1          \* primary keys of warehouse rows are 1..MaxId
MaxFileRows == 2    \* a prepared CSV file holds at most this many rows
MaxRuns == 2        \* load_data_to_db is started at most this many times
MaxTx == 2          \* raw sales rows carry transaction ids 1..MaxTx
MaxRawRows == 3     \* the raw sales file holds at most this many rows
MaxSalesRows == 4   \* remove_outliers is given at most this many rows
MaxCubeRows == 3    \* the sales table read by the cube builder holds 1..MaxCubeRows rows
MaxProductId == 2   \* raw products rows carry product ids 1..MaxProductId
MaxProductRows == 2 \* the raw products file holds at most this many rows
MaxCallRows == 3    \* create_olap_cube on its own is given 1..MaxCallRows rows
MaxNameLen == 2     \* a column or function name has at most this many characters
MaxMetrics == 2     \* a metrics mapping given to generate_column_names has 1..MaxMetrics items

\* ------------------------------------------------------------------------
\* Helpers
\* ------------------------------------------------------------------------
SeqsUpTo(S, n) == UNION {[1..k -> S] : k \in 0..n}

Range(s) == {s[i] : i \in 1..Len(s)}

HasDuplicates(s) == \E i, j \in 1..Len(s) : i < j /\ s[i] = s[j]

\* A cell is a missing value (NaN / None) or a number.
NULL == <<>>

Cell(n) == <<n>>

isna(c) == c = NULL

\* Series comparisons: a comparison with a missing value is False.
Gt(c, n) == ~isna(c) /\ c[1] > n

Le(c, n) == ~isna(c) /\ c[1] <= n

\* ------------------------------------------------------------------------
\* etl_to_dw.py: the warehouse
\* ------------------------------------------------------------------------
Tables == {"customers", "products", "sales", "stores", "campaigns"}

LoadedTables == {"customers", "products", "sales"}

Ids == 1..MaxId

\* A database: the tables that exist, and the primary keys of the rows of each
\* (a table that does not exist has none).
Databases ==
    {d \in [tables : SUBSET Tables, rows : [Tables -> SUBSET Ids]] :
        \A t \in Tables : t \notin d.tables => d.rows[t] = {}}

EmptyDatabase == [tables |-> {}, rows |-> [t \in Tables |-> {}]]

\* cursor.execute("CREATE TABLE IF NOT EXISTS t ...") outside a transaction:
\* sqlite3 runs DDL in autocommit mode, so the table is committed at once.
CreateTableIfNotExists(d, t) ==
    [db |-> [d EXCEPT !.tables = @ \cup {t}], error |-> "none"]

\* cursor.execute("CREATE TABLE t ...") raises when t exists.
CreateTable(d, t) ==
    IF t \in d.tables
    THEN [db |-> d, error |-> "OperationalError"]
    ELSE [db |-> [d EXCEPT !.tables = @ \cup {t}], error |-> "none"]

\* The tables create_schema creates with IF NOT EXISTS.
IfNotExistsTables == {"customers", "products", "sales"}

ExecuteCreate(d, t) ==
    IF t \in IfNotExistsTables THEN CreateTableIfNotExists(d, t) ELSE CreateTable(d, t)

SchemaOrder == <<"customers", "products", "sales", "stores", "campaigns">>

\* create_schema: the five statements in order; the first that raises ends it,
\* the tables created before it stay created.
RECURSIVE create_schema_from(_, _)
create_schema_from(d, i) ==
    IF i > Len(SchemaOrder) THEN [db |-> d, error |-> "none"]
    ELSE LET r == ExecuteCreate(d, SchemaOrder[i])
         IN  IF r.error # "none" THEN r ELSE create_schema_from(r.db, i + 1)

create_schema(d) == create_schema_from(d, 1)

\* A clearing that empties the stores table as well.
DeleteOrder_WithStores == <<"customers", "products", "sales", "stores">>

\* delete_existing_records: DELETE FROM customers, products, sales.
DeleteOrder == <<"customers", "products", "sales">>

delete_existing_records(d) ==
    [d EXCEPT !.rows = [t \in Tables |-> IF t \in Range(DeleteOrder) THEN {} ELSE @[t]]]

\* DataFrame.to_sql(t, connection, if_exists="append"): one executemany of all
\* rows.  A row whose primary key is already in the table, or twice in the
\* frame, violates PRIMARY KEY and the statement raises.
ToSqlFails(d, t, frame) ==
    HasDuplicates(frame) \/ Range(frame) \cap d.rows[t] # {}

ToSqlRows(d, t, frame) == [d EXCEPT !.rows[t] = @ \cup Range(frame)]

\* pandas ends to_sql on a sqlite3 connection with connection.commit(), and
\* with connection.rollback() when the insert raised.
ToSqlCommits == TRUE

\* The prepared files: not found, or found with the keys of its rows in order.
PreparedFiles ==
    {[found |-> FALSE, rows |-> <<>>]} \cup
    {[found |-> TRUE, rows |-> s] : s \in SeqsUpTo(Ids, MaxFileRows)}

\* A load that inserts the sales before the customers and the products.
LoadSteps_SalesFirst ==
    <<"create_schema", "delete_existing_records",
      "read_customers", "read_products", "read_sales",
      "insert_sales", "insert_customers", "insert_products",
      "commit">>

\* The statements of load_data_to_db's try block, in program order.
LoadSteps ==
    <<"create_schema", "delete_existing_records",
      "read_customers", "read_products", "read_sales",
      "insert_customers", "insert_products", "insert_sales",
      "commit">>

StepAfter(p) ==
    LET i == CHOOSE k \in 1..Len(LoadSteps) : LoadSteps[k] = p
    IN  IF i = Len(LoadSteps) THEN "finally" ELSE LoadSteps[i + 1]

NoFrames == [t \in LoadedTables |-> <<>>]

\* conn = sqlite3.connect(DB_PATH); cursor = conn.cursor()
Connect ==
    /\ pc = "idle"
    /\ runs < MaxRuns
    /\ pc' = LoadSteps[1]
    /\ runs' = runs + 1
    /\ tx' = db
    /\ in_transaction' = FALSE
    /\ pre' = db
    /\ ops' = <<>>
    /\ dfs' = NoFrames
    /\ error' = "none"
    /\ UNCHANGED <<db, outcomes>>
    /\ UNCHANGED <<salesVars, productsVars, cubeVars, namesVars>>

\* create_schema(cursor)
CreateSchema ==
    /\ pc = "create_schema"
    /\ LET r == create_schema(tx)
       IN  /\ tx' = r.db
           /\ db' = r.db
           /\ error' = r.error
           /\ pc' = IF r.error = "none" THEN StepAfter(pc) ELSE "finally"
    /\ UNCHANGED <<in_transaction, dfs, runs, pre, ops, outcomes>>
    /\ UNCHANGED <<salesVars, productsVars, cubeVars, namesVars>>

\* delete_existing_records(cursor): the first DELETE opens a transaction.
DeleteExistingRecords ==
    /\ pc = "delete_existing_records"
    /\ tx' = delete_existing_records(tx)
    /\ in_transaction' = TRUE
    /\ ops' = ops \o [i \in 1..Len(DeleteOrder) |-> <<"DELETE", DeleteOrder[i]>>]
    /\ pc' = StepAfter(pc)
    /\ UNCHANGED <<db, dfs, error, runs, pre, outcomes>>
    /\ UNCHANGED <<salesVars, productsVars, cubeVars, namesVars>>

\* x_df = pd.read_csv(PREPARED_DATA_DIR.joinpath("x_data_prepared.csv"))
ReadCsv(t) ==
    /\ pc = "read_" \o t
    /\ \E f \in PreparedFiles :
        IF f.found
        THEN /\ dfs' = [dfs EXCEPT ![t] = f.rows]
             /\ pc' = StepAfter(pc)
             /\ error' = error
        ELSE /\ dfs' = dfs
             /\ pc' = "finally"
             /\ error' = "FileNotFoundError"
    /\ UNCHANGED <<db, tx, in_transaction, runs, pre, ops, outcomes>>
    /\ UNCHANGED <<salesVars, productsVars, cubeVars, namesVars>>

\* insert_customers / insert_products / insert_sales
Insert(t) ==
    /\ pc = "insert_" \o t
    /\ ops' = Append(ops, <<"INSERT", t>>)
    /\ IF ToSqlFails(tx, t, dfs[t])
       THEN /\ tx' = IF ToSqlCommits THEN db ELSE tx
            /\ in_transaction' = IF ToSqlCommits THEN FALSE ELSE in_transaction
            /\ db' = db
            /\ error' = "IntegrityError"
            /\ pc' = "finally"
       ELSE /\ tx' = ToSqlRows(tx, t, dfs[t])
            /\ db' = IF ToSqlCommits THEN tx' ELSE db
            /\ in_transaction' = IF ToSqlCommits THEN FALSE ELSE TRUE
            /\ error' = error
            /\ pc' = StepAfter(pc)
    /\ UNCHANGED <<dfs, runs, pre, outcomes>>
    /\ UNCHANGED <<salesVars, productsVars, cubeVars, namesVars>>

\* conn.commit()
Commit ==
    /\ pc = "commit"
    /\ db' = tx
    /\ in_transaction' = FALSE
    /\ pc' = StepAfter(pc)
    /\ UNCHANGED <<tx, dfs, error, runs, pre, ops, outcomes>>
    /\ UNCHANGED <<salesVars, productsVars, cubeVars, namesVars>>

\* finally: conn.close().  Closing drops whatever was not committed.
Close ==
    /\ pc = "finally"
    /\ tx' = db
    /\ in_transaction' = FALSE
    /\ outcomes' = Append(outcomes, error)
    /\ pc' = "idle"
    /\ UNCHANGED <<db, dfs, error, runs, pre, ops>>
    /\ UNCHANGED <<salesVars, productsVars, cubeVars, namesVars>>

NextLoad ==
    \/ Connect
    \/ CreateSchema
    \/ DeleteExistingRecords
    \/ \E t \in LoadedTables : ReadCsv(t)
    \/ \E t \in LoadedTables : Insert(t)
    \/ Commit
    \/ Close

\* ------------------------------------------------------------------------
\* prepare_sales_data.py
\* ------------------------------------------------------------------------
\* A sales frame: its column names and its rows.  A row holds the value of
\* its first column (the transaction id) as key and its campaign_id.
CampaignValues == {NULL, Cell(-1), Cell(0), Cell(5)}

RawSalesColumns == <<"Transaction_ID", "Campaign_ID">>

SalesRows(keys) == [key : keys, campaign_id : CampaignValues]

SalesFrame(cols, rows) == [columns |-> cols, rows |-> rows]

NoFrame == SalesFrame(<<>>, <<>>)

NoLog == [input |-> <<>>, invalid_count |-> 0, removed_count |-> 0]

\* DataScrubber.normalize_column_names: lower-case every column name.
LowerCase(name) ==
    CASE name = "Transaction_ID" -> "transaction_id"
      [] name = "Campaign_ID" -> "campaign_id"
      [] name = "Product_ID" -> "product_id"
      [] name = "Stock_Quantity" -> "stock_quantity"
      [] name = "Unit_Price" -> "unit_price"
      [] OTHER -> name

normalize_column_names(f) ==
    [f EXCEPT !.columns = [i \in 1..Len(f.columns) |-> LowerCase(f.columns[i])]]

\* DataScrubber.format_string_columns: trims and re-cases the text columns;
\* the two columns of the frame hold numbers.
format_string_columns(f) == f

\* DataScrubber.remove_duplicates(subset): the first row of each key stays.
RECURSIVE DropDuplicates(_, _)
DropDuplicates(rows, seen) ==
    IF rows = <<>> THEN <<>>
    ELSE IF Head(rows).key \in seen THEN DropDuplicates(Tail(rows), seen)
         ELSE <<Head(rows)>> \o DropDuplicates(Tail(rows), seen \cup {Head(rows).key})

scrubber_remove_duplicates(f) == [f EXCEPT !.rows = DropDuplicates(f.rows, {})]

\* DataScrubber.rename_columns(mapping): renames the held frame's columns
\* named as keys of the mapping, and returns the held frame.
scrubber_rename_columns(f, old, new) ==
    [f EXCEPT !.columns = [i \in 1..Len(f.columns) |->
                              IF f.columns[i] = old THEN new ELSE f.columns[i]]]

\* handle_missing_values: df.fillna({'BonusPoints': 0}, inplace=True) fills a
\* column the rows of the model do not carry.
handle_missing_values(f) == f

InvalidCampaign(r) == isna(r.campaign_id) \/ Le(r.campaign_id, 0)

\* A filter that keeps campaign_id 0 (>= for >).
ValidCampaign_OrZero(r) == ~isna(r.campaign_id) /\ r.campaign_id[1] >= 0

ValidCampaign(r) == Gt(r.campaign_id, 0)

\* remove_outliers: the frame it returns and the two counts it logs.  df[mask]
\* keeps the rows for which the mask holds, in their order.
remove_outliers(f) ==
    LET initial_count == Len(f.rows)
        invalid_count == Len(SelectSeq(f.rows, InvalidCampaign))
        out == [f EXCEPT !.rows = SelectSeq(f.rows, ValidCampaign)]
    IN  [df |-> out,
         invalid_count |-> invalid_count,
         removed_count |-> initial_count - Len(out.rows)]

\* df = read_raw_data(input_file)
ReadRawData ==
    /\ s_pc = "read_raw_data"
    /\ s_df' = s_raw
    /\ s_pc' = "scrubber"
    /\ UNCHANGED <<s_raw, s_scrubber, s_saved, s_steps, s_log>>
    /\ UNCHANGED <<loadVars, productsVars, cubeVars, namesVars>>

\* scrubber = DataScrubber(df); scrubber.normalize_column_names();
\* scrubber.format_string_columns(); df = scrubber.get_dataframe()
CleanWithScrubber ==
    /\ s_pc = "scrubber"
    /\ s_scrubber' = format_string_columns(normalize_column_names(s_df))
    /\ s_df' = s_scrubber'
    /\ s_steps' = s_steps \o <<"normalize_column_names", "format_string_columns">>
    /\ s_pc' = "remove_duplicates"
    /\ UNCHANGED <<s_raw, s_saved, s_log>>
    /\ UNCHANGED <<loadVars, productsVars, cubeVars, namesVars>>

\* df = remove_duplicates(df, scrubber)
RemoveDuplicates ==
    /\ s_pc = "remove_duplicates"
    /\ s_scrubber' = scrubber_remove_duplicates(s_scrubber)
    /\ s_df' = s_scrubber'
    /\ s_steps' = Append(s_steps, "remove_duplicates")
    /\ s_pc' = "handle_missing_values"
    /\ UNCHANGED <<s_raw, s_saved, s_log>>
    /\ UNCHANGED <<loadVars, productsVars, cubeVars, namesVars>>

\* df = handle_missing_values(df): fills in place the frame the scrubber holds too.
HandleMissingValues ==
    /\ s_pc = "handle_missing_values"
    /\ s_df' = handle_missing_values(s_df)
    /\ s_scrubber' = s_df'
    /\ s_steps' = Append(s_steps, "handle_missing_values")
    /\ s_pc' = "remove_outliers"
    /\ UNCHANGED <<s_raw, s_saved, s_log>>
    /\ UNCHANGED <<loadVars, productsVars, cubeVars, namesVars>>

\* df = remove_outliers(df): a new frame; the scrubber keeps the one it holds.
RemoveOutliers ==
    /\ s_pc = "remove_outliers"
    /\ LET r == remove_outliers(s_df)
       IN  /\ s_df' = r.df
           /\ s_log' = [input |-> s_df.rows,
                        invalid_count |-> r.invalid_count,
                        removed_count |-> r.removed_count]
    /\ s_steps' = Append(s_steps, "remove_outliers")
    /\ s_pc' = "rename_columns"
    /\ UNCHANGED <<s_raw, s_scrubber, s_saved>>
    /\ UNCHANGED <<loadVars, productsVars, cubeVars, namesVars>>

\* df = scrubber.rename_columns({"transaction_id": "sale_id"})
RenameColumns ==
    /\ s_pc = "rename_columns"
    /\ s_scrubber' = scrubber_rename_columns(s_scrubber, "transaction_id", "sale_id")
    /\ s_df' = s_scrubber'
    /\ s_steps' = Append(s_steps, "rename_columns")
    /\ s_pc' = "save_prepared_data"
    /\ UNCHANGED <<s_raw, s_saved, s_log>>
    /\ UNCHANGED <<loadVars, productsVars, cubeVars, namesVars>>

\* save_prepared_data(df, output_file)
SavePreparedData ==
    /\ s_pc = "save_prepared_data"
    /\ s_saved' = s_df
    /\ s_pc' = "done"
    /\ UNCHANGED <<s_raw, s_df, s_scrubber, s_steps, s_log>>
    /\ UNCHANGED <<loadVars, productsVars, cubeVars, namesVars>>

NextSales ==
    \/ ReadRawData
    \/ CleanWithScrubber
    \/ RemoveDuplicates
    \/ HandleMissingValues
    \/ RemoveOutliers
    \/ RenameColumns
    \/ SavePreparedData

\* remove_outliers on its own: a frame of rows with distinct transaction ids,
\* as remove_duplicates leaves them.
DistinctKeyRows(campaigns) ==
    [i \in 1..Len(campaigns) |-> [key |-> i, campaign_id |-> campaigns[i]]]

NextOutliers == RemoveOutliers

\* ------------------------------------------------------------------------
\* prepare_products_data.py
\* ------------------------------------------------------------------------
\* A products frame: a row holds its product id as key, its stock_quantity
\* and its unit_price.
StockValues == {NULL, Cell(-1), Cell(0), Cell(3)}

PriceValues == {NULL, Cell(-1), Cell(0)}

RawProductsColumns == <<"Product_ID", "Stock_Quantity", "Unit_Price">>

ProductsRows ==
    [key : 1..MaxProductId, stock_quantity : StockValues, unit_price : PriceValues]

\* Series >= n: a comparison with a missing value is False.
Ge(c, n) == ~isna(c) /\ c[1] >= n

\* handle_missing_values: df.fillna({'productname': 'Unknown Product'},
\* inplace=True) fills a column the rows of the model do not carry.
products_handle_missing_values(f) == f

\* remove_outliers: df = df[df['stock_quantity'] > 0]
ValidStock(r) == Gt(r.stock_quantity, 0)

products_remove_outliers(f) == [f EXCEPT !.rows = SelectSeq(f.rows, ValidStock)]

\* A price rule that discards unit_price 0 (> for >=).
ValidPrice_Positive(r) == Gt(r.unit_price, 0)

\* validate_data: df = df[df['unit_price'] >= 0]
ValidPrice(r) == Ge(r.unit_price, 0)

validate_data(f) == [f EXCEPT !.rows = SelectSeq(f.rows, ValidPrice)]

\* standardize_formats: its body changes nothing (every statement is commented out).
standardize_formats(f) == f

\* df = read_raw_data(input_file)
ProductsReadRawData ==
    /\ p_pc = "read_raw_data"
    /\ p_df' = p_raw
    /\ p_pc' = "scrubber"
    /\ UNCHANGED <<p_raw, p_scrubber, p_saved, p_steps>>
    /\ UNCHANGED <<loadVars, salesVars, cubeVars, namesVars>>

\* scrubber = DataScrubber(df); scrubber.normalize_column_names();
\* scrubber.format_string_columns(); df = scrubber.get_dataframe()
ProductsCleanWithScrubber ==
    /\ p_pc = "scrubber"
    /\ p_scrubber' = format_string_columns(normalize_column_names(p_df))
    /\ p_df' = p_scrubber'
    /\ p_steps' = p_steps \o <<"normalize_column_names", "format_string_columns">>
    /\ p_pc' = "remove_duplicates"
    /\ UNCHANGED <<p_raw, p_saved>>
    /\ UNCHANGED <<loadVars, salesVars, cubeVars, namesVars>>

\* df = remove_duplicates(df, scrubber)
ProductsRemoveDuplicates ==
    /\ p_pc = "remove_duplicates"
    /\ p_scrubber' = scrubber_remove_duplicates(p_scrubber)
    /\ p_df' = p_scrubber'
    /\ p_steps' = Append(p_steps, "remove_duplicates")
    /\ p_pc' = "handle_missing_values"
    /\ UNCHANGED <<p_raw, p_saved>>
    /\ UNCHANGED <<loadVars, salesVars, cubeVars, namesVars>>

\* df = handle_missing_values(df): fills in place the frame the scrubber holds too.
ProductsHandleMissingValues ==
    /\ p_pc = "handle_missing_values"
    /\ p_df' = products_handle_missing_values(p_df)
    /\ p_scrubber' = p_df'
    /\ p_steps' = Append(p_steps, "handle_missing_values")
    /\ p_pc' = "remove_outliers"
    /\ UNCHANGED <<p_raw, p_saved>>
    /\ UNCHANGED <<loadVars, salesVars, cubeVars, namesVars>>

\* df = remove_outliers(df): a new frame; the scrubber keeps the one it holds.
ProductsRemoveOutliers ==
    /\ p_pc = "remove_outliers"
    /\ p_df' = products_remove_outliers(p_df)
    /\ p_steps' = Append(p_steps, "remove_outliers")
    /\ p_pc' = "validate_data"
    /\ UNCHANGED <<p_raw, p_scrubber, p_saved>>
    /\ UNCHANGED <<loadVars, salesVars, cubeVars, namesVars>>

\* A main that saves right after validate_data and never standardizes.
ProductsValidateData_ThenSave ==
    /\ p_pc = "validate_data"
    /\ p_df' = validate_data(p_df)
    /\ p_steps' = Append(p_steps, "validate_data")
    /\ p_pc' = "save_prepared_data"
    /\ UNCHANGED <<p_raw, p_scrubber, p_saved>>
    /\ UNCHANGED <<loadVars, salesVars, cubeVars, namesVars>>

\* df = validate_data(df)
ProductsValidateData ==
    /\ p_pc = "validate_data"
    /\ p_df' = validate_data(p_df)
    /\ p_steps' = Append(p_steps, "validate_data")
    /\ p_pc' = "standardize_formats"
    /\ UNCHANGED <<p_raw, p_scrubber, p_saved>>
    /\ UNCHANGED <<loadVars, salesVars, cubeVars, namesVars>>

\* df = standardize_formats(df)
ProductsStandardizeFormats ==
    /\ p_pc = "standardize_formats"
    /\ p_df' = standardize_formats(p_df)
    /\ p_steps' = Append(p_steps, "standardize_formats")
    /\ p_pc' = "save_prepared_data"
    /\ UNCHANGED <<p_raw, p_scrubber, p_saved>>
    /\ UNCHANGED <<loadVars, salesVars, cubeVars, namesVars>>

\* save_prepared_data(df, output_file)
ProductsSavePreparedData ==
    /\ p_pc = "save_prepared_data"
    /\ p_saved' = p_df
    /\ p_pc' = "done"
    /\ UNCHANGED <<p_raw, p_df, p_scrubber, p_steps>>
    /\ UNCHANGED <<loadVars, salesVars, cubeVars, namesVars>>

NextProducts ==
    \/ ProductsReadRawData
    \/ ProductsCleanWithScrubber
    \/ ProductsRemoveDuplicates
    \/ ProductsHandleMissingValues
    \/ ProductsRemoveOutliers
    \/ ProductsValidateData
    \/ ProductsStandardizeFormats
    \/ ProductsSavePreparedData

\* ------------------------------------------------------------------------
\* olap_cubing.py
\* ------------------------------------------------------------------------
\* A column or function name is the sequence of its parts, each separator
\* "_" a part of its own: sale_amount is <<"sale", "_", "amount">>, so that
\* joining and stripping names is joining and stripping sequences.
SEP == "_"

customer_id == <<"customer", SEP, "id">>

product_id == <<"product", SEP, "id">>

sale_amount == <<"sale", SEP, "amount">>

sale_id == <<"sale", SEP, "id">>

sale_ids == <<"sale", SEP, "ids">>

avg_transaction_size == <<"avg", SEP, "transaction", SEP, "size">>

sale_amount_sum == <<"sale", SEP, "amount", SEP, "sum">>

sale_id_count == <<"sale", SEP, "id", SEP, "count">>

\* f"{column}_{func}"
FormatName(column, func) == column \o <<SEP>> \o func

\* col.rstrip("_")
RECURSIVE rstrip(_)
rstrip(name) ==
    IF name # <<>> /\ name[Len(name)] = SEP
    THEN rstrip(SubSeq(name, 1, Len(name) - 1))
    ELSE name

\* A metrics mapping is the sequence of its items in insertion order; an item
\* holds the column, its aggregation functions, and whether they came as a
\* list or as one bare value.
Metric(column, agg_funcs, is_list) ==
    [column |-> column, agg_funcs |-> agg_funcs, is_list |-> is_list]

\* Names that leave a bare function unnamed (the column name alone).
ItemNames_BareUnnamed(m) ==
    IF m.is_list
    THEN [i \in 1..Len(m.agg_funcs) |-> FormatName(m.column, m.agg_funcs[i])]
    ELSE <<m.column>>

\* The names one item of the mapping adds, list or bare value.
ItemNames(m) ==
    IF m.is_list
    THEN [i \in 1..Len(m.agg_funcs) |-> FormatName(m.column, m.agg_funcs[i])]
    ELSE <<FormatName(m.column, m.agg_funcs[1])>>

RECURSIVE MetricNames(_)
MetricNames(metrics) ==
    IF metrics = <<>> THEN <<>>
    ELSE ItemNames(Head(metrics)) \o MetricNames(Tail(metrics))

generate_column_names(dimensions, metrics) ==
    LET column_names == dimensions \o MetricNames(metrics)
    IN  [i \in 1..Len(column_names) |-> rstrip(column_names[i])]

\* The sales table as SELECT * FROM sales returns it: sale_id is the INTEGER
\* PRIMARY KEY, so the rows come in ascending sale_id, each id once and never
\* NULL; customer_id carries no constraint and may be NULL.
CustomerValues == {NULL, Cell(1), Cell(2)}

ProductValues == {Cell(7), Cell(8)}

AmountValues == {Cell(5), Cell(10), Cell(20)}

CubeSourceRows ==
    [customer_id : CustomerValues, product_id : ProductValues, sale_amount : AmountValues]

AscendingIds(n) ==
    {ids \in [1..n -> 1..MaxCubeRows] : \A i, j \in 1..n : i < j => ids[i] < ids[j]}

SalesTable(rows, ids) ==
    [i \in 1..Len(rows) |-> [customer_id |-> rows[i].customer_id,
                             product_id |-> rows[i].product_id,
                             sale_amount |-> rows[i].sale_amount,
                             sale_id |-> Cell(ids[i])]]

\* df[name] for one row.
Col(r, name) ==
    CASE name = customer_id -> r.customer_id
      [] name = product_id -> r.product_id
      [] name = sale_amount -> r.sale_amount
      [] name = sale_id -> r.sale_id

Column(rows, name) == [i \in 1..Len(rows) |-> Col(rows[i], name)]

\* The group key of a row: its dimension values.
KeyOf(r, dimensions) == [i \in 1..Len(dimensions) |-> Col(r, dimensions[i])]

HasNullKey(r, dimensions) == \E i \in 1..Len(dimensions) : isna(Col(r, dimensions[i]))

\* DataFrame.groupby(dimensions) is called with its defaults: dropna=True
\* leaves out the rows with a missing value in a dimension, sort=True orders
\* the groups by key.
GroupbyDropna == TRUE

InGroups(r, dimensions) == ~(GroupbyDropna /\ HasNullKey(r, dimensions))

GroupKeys(df, dimensions) ==
    {KeyOf(df[i], dimensions) : i \in {j \in 1..Len(df) : InGroups(df[j], dimensions)}}

\* Keys in lexicographic order (a missing value, where kept, sorts last).
CellLess(a, b) == IF isna(a) THEN FALSE ELSE IF isna(b) THEN TRUE ELSE a[1] < b[1]

KeyLess(a, b) ==
    \E i \in 1..Len(a) :
        /\ CellLess(a[i], b[i])
        /\ \A j \in 1..(i - 1) : a[j] = b[j]

RECURSIVE SortKeys(_)
SortKeys(keys) ==
    IF keys = {} THEN <<>>
    ELSE LET least == CHOOSE k \in keys : \A o \in keys \ {k} : KeyLess(k, o)
         IN  <<least>> \o SortKeys(keys \ {least})

\* The rows of one group, in the order of the frame.
GroupRows(df, dimensions, key) ==
    LET Member(r) == InGroups(r, dimensions) /\ KeyOf(r, dimensions) = key
    IN  SelectSeq(df, Member)

\* The aggregation functions: both skip missing values.
RECURSIVE SumCells(_)
SumCells(cells) ==
    IF cells = <<>> THEN 0
    ELSE (IF isna(Head(cells)) THEN 0 ELSE Head(cells)[1]) + SumCells(Tail(cells))

NotNa(c) == ~isna(c)

CountCells(cells) == Len(SelectSeq(cells, NotNa))

Aggregate(func, cells) ==
    IF func = <<"sum">> THEN Cell(SumCells(cells)) ELSE Cell(CountCells(cells))

\* grouped.agg(metrics) for one group: one value per (column, function).
ItemValues(rows, m) ==
    [i \in 1..Len(m.agg_funcs) |-> Aggregate(m.agg_funcs[i], Column(rows, m.column))]

RECURSIVE AggValues(_, _)
AggValues(rows, metrics) ==
    IF metrics = <<>> THEN <<>>
    ELSE ItemValues(rows, Head(metrics)) \o AggValues(rows, Tail(metrics))

\* Series / Series: true division; a zero denominator gives inf or NaN, kept
\* here as a fraction with denominator 0.
RECURSIVE GCD(_, _)
GCD(a, b) == IF b = 0 THEN a ELSE GCD(b, a % b)

Quotient(n, d) ==
    IF d = 0 THEN [num |-> IF n = 0 THEN 0 ELSE 1, den |-> 0]
    ELSE LET g == GCD(n, d) IN [num |-> n \div g, den |-> d \div g]

PositionOf(names, name) ==
    IF \E i \in 1..Len(names) : names[i] = name
    THEN CHOOSE i \in 1..Len(names) : names[i] = name
    ELSE 0

CubeResult(kind, columns, rows) == [error |-> kind, columns |-> columns, rows |-> rows]

\* A traceability column that keeps the first sale_id of the group only.
SaleIdsOf_FirstOnly(df, dimensions, key) ==
    SubSeq(Column(GroupRows(df, dimensions, key), sale_id), 1, 1)

\* A traceability column that lists the group's sale_ids last-seen first.
SaleIdsOf_Reversed(df, dimensions, key) ==
    LET ids == Column(GroupRows(df, dimensions, key), sale_id)
    IN  [i \in 1..Len(ids) |-> ids[Len(ids) + 1 - i]]

\* cube["sale_ids"] = grouped["sale_id"].apply(list): the sale_id of every row
\* of the group, in the order of the frame.
SaleIdsOf(df, dimensions, key) == Column(GroupRows(df, dimensions, key), sale_id)

\* create_olap_cube: the cube, or the KeyError of the average's columns.
create_olap_cube(sales_df, dimensions, metrics) ==
    LET keys == SortKeys(GroupKeys(sales_df, dimensions))
        explicit_columns == Append(generate_column_names(dimensions, metrics), sale_ids)
        sum_at == PositionOf(explicit_columns, sale_amount_sum)
        count_at == PositionOf(explicit_columns, sale_id_count)
        CubeRow(key) ==
            key \o AggValues(GroupRows(sales_df, dimensions, key), metrics)
                \o <<SaleIdsOf(sales_df, dimensions, key)>>
        WithAverage(row) == Append(row, Quotient(row[sum_at][1], row[count_at][1]))
    IN  IF sum_at = 0 \/ count_at = 0
        THEN CubeResult("KeyError", <<>>, <<>>)
        ELSE CubeResult("none",
                        Append(explicit_columns, avg_transaction_size),
                        [i \in 1..Len(keys) |-> WithAverage(CubeRow(keys[i]))])

\* The arguments create_olap_cube is called with.  main passes MainDimensions
\* and MainMetrics.
MainDimensions == <<customer_id>>

MainMetrics ==
    <<Metric(sale_amount, <<<<"sum">>>>, TRUE), Metric(sale_id, <<<<"count">>>>, FALSE)>>

DimensionChoices == {MainDimensions, <<product_id, customer_id>>}

\* MainMetrics; a mapping in another order, with two functions on a column;
\* a mapping without sale_id.
MetricChoices ==
    {MainMetrics,
     <<Metric(sale_id, <<<<"count">>, <<"sum">>>>, TRUE),
       Metric(sale_amount, <<<<"sum">>>>, FALSE)>>,
     <<Metric(sale_amount, <<<<"sum">>>>, TRUE)>>}

NoCube == CubeResult("none", <<>>, <<>>)

\* sales_df = ingest_sales_data_from_dw()
IngestSalesData ==
    /\ c_pc = "ingest_sales_data_from_dw"
    /\ c_sales_df' = c_table
    /\ c_pc' = "create_olap_cube"
    /\ UNCHANGED <<c_table, c_dimensions, c_metrics, c_cube>>
    /\ UNCHANGED <<loadVars, salesVars, productsVars, namesVars>>

\* olap_cube = create_olap_cube(sales_df, dimensions, metrics)
CreateOlapCube ==
    /\ c_pc = "create_olap_cube"
    /\ \E dimensions \in DimensionChoices, metrics \in MetricChoices :
        /\ c_dimensions' = dimensions
        /\ c_metrics' = metrics
        /\ c_cube' = create_olap_cube(c_sales_df, dimensions, metrics)
    /\ c_pc' = "done"
    /\ UNCHANGED <<c_table, c_sales_df>>
    /\ UNCHANGED <<loadVars, salesVars, productsVars, namesVars>>

NextCube == IngestSalesData \/ CreateOlapCube

\* create_olap_cube on its own: any frame with the columns of the sales table,
\* in any row order, where a sale_id may be missing or repeated and an amount
\* may be 0.
SaleIdValues == {NULL, Cell(1), Cell(2)}

CallAmountValues == {Cell(0), Cell(5)}

CallRows ==
    [customer_id : CustomerValues, product_id : {Cell(7)},
     sale_amount : CallAmountValues, sale_id : SaleIdValues]

NextCubeCall == CreateOlapCube

\* ------------------------------------------------------------------------
\* olap_cubing.py: generate_column_names on its own
\* ------------------------------------------------------------------------
\* Here a name is the sequence of its characters, so that two names are the
\* same string exactly when they are the same sequence.
NameChars == {"a", SEP}

\* A function name may be the empty string; a column name may not.
FunctionNames == SeqsUpTo(NameChars, MaxNameLen)

ColumnNames == FunctionNames \ {<<>>}

\* One item of a metrics dict: a column with one function, bare or in a list.
MetricItems ==
    {Metric(column, <<func>>, is_list) :
        column \in ColumnNames, func \in FunctionNames, is_list \in BOOLEAN}

\* column_names = generate_column_names(dimensions, metrics)
GenerateColumnNames ==
    /\ n_pc = "generate_column_names"
    /\ n_names' = generate_column_names(n_dimensions, n_metrics)
    /\ n_pc' = "done"
    /\ UNCHANGED <<n_dimensions, n_metrics>>
    /\ UNCHANGED <<loadVars, salesVars, productsVars, cubeVars>>

NextNames == GenerateColumnNames

\* ------------------------------------------------------------------------
\* The programs and their specifications
\* ------------------------------------------------------------------------
\* etl_to_dw.py, started on a warehouse in any state.
InitLoad ==
    /\ db \in Databases
    /\ tx = db
    /\ in_transaction = FALSE
    /\ pc = "idle"
    /\ dfs = NoFrames
    /\ error = "none"
    /\ runs = 0
    /\ pre = db
    /\ ops = <<>>
    /\ outcomes = <<>>
    /\ s_raw = NoFrame
    /\ s_df = NoFrame
    /\ s_scrubber = NoFrame
    /\ s_saved = NoFrame
    /\ s_pc = "off"
    /\ s_steps = <<>>
    /\ s_log = NoLog
    /\ p_raw = NoFrame
    /\ p_df = NoFrame
    /\ p_scrubber = NoFrame
    /\ p_saved = NoFrame
    /\ p_pc = "off"
    /\ p_steps = <<>>
    /\ c_table = <<>>
    /\ c_sales_df = <<>>
    /\ c_dimensions = <<>>
    /\ c_metrics = <<>>
    /\ c_cube = NoCube
    /\ c_pc = "off"
    /\ n_dimensions = <<>>
    /\ n_metrics = <<>>
    /\ n_names = <<>>
    /\ n_pc = "off"

SpecLoad == InitLoad /\ [][NextLoad]_vars

\* prepare_sales_data.py, on any raw file (duplicated transaction ids included).
InitSales ==
    /\ db = EmptyDatabase
    /\ tx = EmptyDatabase
    /\ in_transaction = FALSE
    /\ pc = "off"
    /\ dfs = NoFrames
    /\ error = "none"
    /\ runs = 0
    /\ pre = EmptyDatabase
    /\ ops = <<>>
    /\ outcomes = <<>>
    /\ s_raw \in {SalesFrame(RawSalesColumns, rows) :
                    rows \in SeqsUpTo(SalesRows(1..MaxTx), MaxRawRows)}
    /\ s_df = NoFrame
    /\ s_scrubber = NoFrame
    /\ s_saved = NoFrame
    /\ s_pc = "read_raw_data"
    /\ s_steps = <<>>
    /\ s_log = NoLog
    /\ p_raw = NoFrame
    /\ p_df = NoFrame
    /\ p_scrubber = NoFrame
    /\ p_saved = NoFrame
    /\ p_pc = "off"
    /\ p_steps = <<>>
    /\ c_table = <<>>
    /\ c_sales_df = <<>>
    /\ c_dimensions = <<>>
    /\ c_metrics = <<>>
    /\ c_cube = NoCube
    /\ c_pc = "off"
    /\ n_dimensions = <<>>
    /\ n_metrics = <<>>
    /\ n_names = <<>>
    /\ n_pc = "off"

SpecSales == InitSales /\ [][NextSales]_vars

\* prepare_products_data.py, on any raw file (duplicated product ids included).
InitProducts ==
    /\ db = EmptyDatabase
    /\ tx = EmptyDatabase
    /\ in_transaction = FALSE
    /\ pc = "off"
    /\ dfs = NoFrames
    /\ error = "none"
    /\ runs = 0
    /\ pre = EmptyDatabase
    /\ ops = <<>>
    /\ outcomes = <<>>
    /\ s_raw = NoFrame
    /\ s_df = NoFrame
    /\ s_scrubber = NoFrame
    /\ s_saved = NoFrame
    /\ s_pc = "off"
    /\ s_steps = <<>>
    /\ s_log = NoLog
    /\ p_raw \in {SalesFrame(RawProductsColumns, rows) :
                    rows \in SeqsUpTo(ProductsRows, MaxProductRows)}
    /\ p_df = NoFrame
    /\ p_scrubber = NoFrame
    /\ p_saved = NoFrame
    /\ p_pc = "read_raw_data"
    /\ p_steps = <<>>
    /\ c_table = <<>>
    /\ c_sales_df = <<>>
    /\ c_dimensions = <<>>
    /\ c_metrics = <<>>
    /\ c_cube = NoCube
    /\ c_pc = "off"
    /\ n_dimensions = <<>>
    /\ n_metrics = <<>>
    /\ n_names = <<>>
    /\ n_pc = "off"

SpecProducts == InitProducts /\ [][NextProducts]_vars

\* Either entity preparer is run.
InitPreparers == InitSales \/ InitProducts

NextPreparers == NextSales \/ NextProducts

SpecPreparers == InitPreparers /\ [][NextPreparers]_vars

\* remove_outliers of prepare_sales_data.py, called on any deduplicated frame.
InitOutliers ==
    /\ db = EmptyDatabase
    /\ tx = EmptyDatabase
    /\ in_transaction = FALSE
    /\ pc = "off"
    /\ dfs = NoFrames
    /\ error = "none"
    /\ runs = 0
    /\ pre = EmptyDatabase
    /\ ops = <<>>
    /\ outcomes = <<>>
    /\ s_raw = NoFrame
    /\ \E n \in 0..MaxSalesRows : \E campaigns \in [1..n -> CampaignValues] :
           s_df = SalesFrame(<<"transaction_id", "campaign_id">>, DistinctKeyRows(campaigns))
    /\ s_scrubber = s_df
    /\ s_saved = NoFrame
    /\ s_pc = "remove_outliers"
    /\ s_steps = <<>>
    /\ s_log = NoLog
    /\ p_raw = NoFrame
    /\ p_df = NoFrame
    /\ p_scrubber = NoFrame
    /\ p_saved = NoFrame
    /\ p_pc = "off"
    /\ p_steps = <<>>
    /\ c_table = <<>>
    /\ c_sales_df = <<>>
    /\ c_dimensions = <<>>
    /\ c_metrics = <<>>
    /\ c_cube = NoCube
    /\ c_pc = "off"
    /\ n_dimensions = <<>>
    /\ n_metrics = <<>>
    /\ n_names = <<>>
    /\ n_pc = "off"

SpecOutliers == InitOutliers /\ [][NextOutliers]_vars

\* olap_cubing.py, on any content of the warehouse's sales table.
InitCube ==
    /\ db = EmptyDatabase
    /\ tx = EmptyDatabase
    /\ in_transaction = FALSE
    /\ pc = "off"
    /\ dfs = NoFrames
    /\ error = "none"
    /\ runs = 0
    /\ pre = EmptyDatabase
    /\ ops = <<>>
    /\ outcomes = <<>>
    /\ s_raw = NoFrame
    /\ s_df = NoFrame
    /\ s_scrubber = NoFrame
    /\ s_saved = NoFrame
    /\ s_pc = "off"
    /\ s_steps = <<>>
    /\ s_log = NoLog
    /\ p_raw = NoFrame
    /\ p_df = NoFrame
    /\ p_scrubber = NoFrame
    /\ p_saved = NoFrame
    /\ p_pc = "off"
    /\ p_steps = <<>>
    /\ \E n \in 1..MaxCubeRows :
           \E rows \in [1..n -> CubeSourceRows], ids \in AscendingIds(n) :
               c_table = SalesTable(rows, ids)
    /\ c_sales_df = <<>>
    /\ c_dimensions = <<>>
    /\ c_metrics = <<>>
    /\ c_cube = NoCube
    /\ c_pc = "ingest_sales_data_from_dw"
    /\ n_dimensions = <<>>
    /\ n_metrics = <<>>
    /\ n_names = <<>>
    /\ n_pc = "off"

SpecCube == InitCube /\ [][NextCube]_vars

\* create_olap_cube of olap_cubing.py, called on any frame.
InitCubeCall ==
    /\ db = EmptyDatabase
    /\ tx = EmptyDatabase
    /\ in_transaction = FALSE
    /\ pc = "off"
    /\ dfs = NoFrames
    /\ error = "none"
    /\ runs = 0
    /\ pre = EmptyDatabase
    /\ ops = <<>>
    /\ outcomes = <<>>
    /\ s_raw = NoFrame
    /\ s_df = NoFrame
    /\ s_scrubber = NoFrame
    /\ s_saved = NoFrame
    /\ s_pc = "off"
    /\ s_steps = <<>>
    /\ s_log = NoLog
    /\ p_raw = NoFrame
    /\ p_df = NoFrame
    /\ p_scrubber = NoFrame
    /\ p_saved = NoFrame
    /\ p_pc = "off"
    /\ p_steps = <<>>
    /\ c_table = <<>>
    /\ \E n \in 1..MaxCallRows : c_sales_df \in [1..n -> CallRows]
    /\ c_dimensions = <<>>
    /\ c_metrics = <<>>
    /\ c_cube = NoCube
    /\ c_pc = "create_olap_cube"
    /\ n_dimensions = <<>>
    /\ n_metrics = <<>>
    /\ n_names = <<>>
    /\ n_pc = "off"

SpecCubeCall == InitCubeCall /\ [][NextCubeCall]_vars

\* generate_column_names of olap_cubing.py, called on any dimensions list of
\* at most one name and any metrics mapping of 1..MaxMetrics items.
InitNames ==
    /\ db = EmptyDatabase
    /\ tx = EmptyDatabase
    /\ in_transaction = FALSE
    /\ pc = "off"
    /\ dfs = NoFrames
    /\ error = "none"
    /\ runs = 0
    /\ pre = EmptyDatabase
    /\ ops = <<>>
    /\ outcomes = <<>>
    /\ s_raw = NoFrame
    /\ s_df = NoFrame
    /\ s_scrubber = NoFrame
    /\ s_saved = NoFrame
    /\ s_pc = "off"
    /\ s_steps = <<>>
    /\ s_log = NoLog
    /\ p_raw = NoFrame
    /\ p_df = NoFrame
    /\ p_scrubber = NoFrame
    /\ p_saved = NoFrame
    /\ p_pc = "off"
    /\ p_steps = <<>>
    /\ c_table = <<>>
    /\ c_sales_df = <<>>
    /\ c_dimensions = <<>>
    /\ c_metrics = <<>>
    /\ c_cube = NoCube
    /\ c_pc = "off"
    /\ n_dimensions \in SeqsUpTo(ColumnNames, 1)
    /\ \E k \in 1..MaxMetrics : \E metrics \in [1..k -> MetricItems] :
           /\ \A i, j \in 1..k : i < j => metrics[i].column # metrics[j].column
           /\ n_metrics = metrics
    /\ n_names = <<>>
    /\ n_pc = "generate_column_names"

SpecNames == InitNames /\ [][NextNames]_vars

\* One of the programs is run.
Init == InitLoad \/ InitSales \/ InitProducts \/ InitCube

Next == NextLoad \/ NextSales \/ NextProducts \/ NextCube

Spec == Init /\ [][Next]_vars

\* ------------------------------------------------------------------------
\* Properties of the warehouse loader (checked under SpecLoad)
\* ------------------------------------------------------------------------
RunEnded == pc = "idle" /\ outcomes # <<>>

LastOutcome == outcomes[Len(outcomes)]

\* C1: the load is atomic per run: after a run that failed, the committed
\* rows of customers, products and sales are those the warehouse held when
\* the run began.
C1_FailedRunLeavesRows ==
    (RunEnded /\ LastOutcome # "none")
        => \A t \in LoadedTables : db.rows[t] = pre.rows[t]

\* The errors a run can end with because of its prepared files.
DatasetErrors == {"FileNotFoundError", "IntegrityError"}

\* C2: full-replace load: a run that follows a completed run, and whose own
\* prepared files can be read and inserted, completes too and leaves in
\* customers, products and sales exactly the rows of its own files.
C2_SecondLoadReplaces ==
    (/\ RunEnded
     /\ Len(outcomes) >= 2
     /\ outcomes[Len(outcomes) - 1] = "none"
     /\ LastOutcome \notin DatasetErrors)
        => /\ LastOutcome = "none"
           /\ \A t \in LoadedTables : db.rows[t] = Range(dfs[t])

\* C3: create_schema is idempotent: whatever tables exist when it is called,
\* it raises nothing, all five tables exist afterwards, and no row changed.
SchemaCalled == pc \notin {"off", "idle", "create_schema"}

C3_CreateSchemaIdempotent ==
    SchemaCalled
        => /\ error # "OperationalError"
           /\ db.tables = Tables
           /\ (pc = "delete_existing_records" => db.rows = pre.rows)

\* C8: a run that ends because a prepared file is not found leaves the
\* warehouse as it found it: no table created, no row deleted or inserted.
C8_MissingFileNoMutation ==
    (RunEnded /\ LastOutcome = "FileNotFoundError") => db = pre

\* C9: load ordering: within a run every DELETE comes before every INSERT,
\* an INSERT runs only after all three tables were cleared, and the INSERT
\* into sales runs only after the INSERTs into customers and products.
Before(i, op) == \E j \in 1..(i - 1) : ops[j] = op

C9_LoadOrdering ==
    \A i \in 1..Len(ops) :
        /\ ops[i][1] = "INSERT"
            => /\ \A t \in LoadedTables : Before(i, <<"DELETE", t>>)
               /\ \A j \in (i + 1)..Len(ops) : ops[j][1] # "DELETE"
        /\ ops[i] = <<"INSERT", "sales">>
            => /\ Before(i, <<"INSERT", "customers">>)
               /\ Before(i, <<"INSERT", "products">>)

\* A run that inserted into all three tables and completed.
C9_Witness ==
    /\ RunEnded
    /\ LastOutcome = "none"
    /\ \E i \in 1..Len(ops) : ops[i] = <<"INSERT", "sales">>
    /\ db.rows["sales"] # {}

\* The tables the load creates but never fills.
FrameTables == Tables \ LoadedTables

\* C16: frame of the load: every DELETE and INSERT of a run names customers,
\* products or sales, and at every point of a run, and after it, the rows of
\* stores and campaigns (committed, and as the connection sees them) are
\* those the warehouse held when the run began.
C16_LoadFrame ==
    /\ \A i \in 1..Len(ops) : ops[i][2] \in LoadedTables
    /\ \A t \in FrameTables :
          /\ db.rows[t] = pre.rows[t]
          /\ tx.rows[t] = pre.rows[t]

\* A run that ended after it deleted and inserted, and changed the rows of a
\* loaded table.
C16_Witness ==
    /\ RunEnded
    /\ \E i \in 1..Len(ops) : ops[i][1] = "DELETE"
    /\ \E i \in 1..Len(ops) : ops[i][1] = "INSERT"
    /\ \E t \in LoadedTables : db.rows[t] # pre.rows[t]

\* ------------------------------------------------------------------------
\* Properties of the sales preparer
\* ------------------------------------------------------------------------
\* The rows of a frame that carry a campaign_id greater than 0.
ValidIndexes(rows) ==
    {k \in 1..Len(rows) : rows[k].campaign_id # NULL /\ rows[k].campaign_id[1] > 0}

\* out is rows restricted to the indexes in keep, in the order of rows.
IsRestriction(out, rows, keep) ==
    /\ Len(out) = Cardinality(keep)
    /\ \E f \in [1..Len(out) -> 1..Len(rows)] :
        /\ \A i \in 1..Len(out) : f[i] \in keep /\ out[i] = rows[f[i]]
        /\ \A i, j \in 1..Len(out) : i < j => f[i] < f[j]

\* C4 (SpecOutliers): remove_outliers returns exactly the rows with a
\* campaign_id present and > 0, in their order, and both counts it logs equal
\* the number of rows with a campaign_id missing or <= 0.
C4_OutliersRemoved ==
    s_pc = "rename_columns"
        => /\ IsRestriction(s_df.rows, s_log.input, ValidIndexes(s_log.input))
           /\ s_log.removed_count
                = Cardinality((1..Len(s_log.input)) \ ValidIndexes(s_log.input))
           /\ s_log.invalid_count = s_log.removed_count

\* The frame with campaign_id -1, 0, missing, 5: the row with 5 stays, 3 go.
C4_Witness ==
    /\ s_pc = "rename_columns"
    /\ [i \in 1..Len(s_log.input) |-> s_log.input[i].campaign_id]
         = <<Cell(-1), Cell(0), NULL, Cell(5)>>
    /\ s_df.rows = <<[key |-> 4, campaign_id |-> Cell(5)]>>
    /\ s_log.removed_count = 3

\* C5 (SpecSales): the file the sales preparer saves holds no row with a
\* campaign_id missing or <= 0.
C5_SavedCampaignsValid ==
    s_pc = "done"
        => \A i \in 1..Len(s_saved.rows) :
              /\ s_saved.rows[i].campaign_id # NULL
              /\ s_saved.rows[i].campaign_id[1] > 0

\* ------------------------------------------------------------------------
\* Properties of the products preparer
\* ------------------------------------------------------------------------
\* The raw rows that are the first of their product id.
FirstOfKey(rows) ==
    {k \in 1..Len(rows) : \A j \in 1..(k - 1) : rows[j].key # rows[k].key}

\* The raw rows with stock_quantity present and > 0, unit_price present and >= 0.
ValidProducts(rows) ==
    {k \in 1..Len(rows) :
        /\ rows[k].stock_quantity # NULL /\ rows[k].stock_quantity[1] > 0
        /\ rows[k].unit_price # NULL /\ rows[k].unit_price[1] >= 0}

\* C13 (SpecProducts): the file the products preparer saves holds exactly
\* the deduplicated rows (the first row of each product id) whose
\* stock_quantity is present and > 0 and whose unit_price is present and
\* >= 0, in their order; no other row is removed.
C13_ProductsValid ==
    p_pc = "done"
        => IsRestriction(p_saved.rows, p_raw.rows,
                         FirstOfKey(p_raw.rows) \cap ValidProducts(p_raw.rows))

\* Two products in stock, one priced 0 and one priced -1: the first is saved.
C13_Witness ==
    /\ p_pc = "done"
    /\ p_raw.rows = <<[key |-> 1, stock_quantity |-> Cell(3), unit_price |-> Cell(0)],
                      [key |-> 2, stock_quantity |-> Cell(3), unit_price |-> Cell(-1)]>>
    /\ p_saved.rows = <<[key |-> 1, stock_quantity |-> Cell(3), unit_price |-> Cell(0)]>>

\* ------------------------------------------------------------------------
\* Properties of both preparers (checked under SpecPreparers)
\* ------------------------------------------------------------------------
\* The place of a cleaning step in the canonical order: 1 deduplicate,
\* 2 fill missing values, 3 reformat, 4 discard invalid rows, 5 rename or
\* normalize columns.
CanonicalPlace(step) ==
    CASE step = "remove_duplicates" -> 1
      [] step = "handle_missing_values" -> 2
      [] step \in {"format_string_columns", "standardize_formats"} -> 3
      [] step \in {"remove_outliers", "validate_data"} -> 4
      [] step \in {"normalize_column_names", "rename_columns"} -> 5

InCanonicalOrder(steps) ==
    \A i, j \in 1..Len(steps) :
        i < j => CanonicalPlace(steps[i]) <= CanonicalPlace(steps[j])

\* C12 as stated: the steps of each preparer run in the canonical order:
\* normalization and reformatting never before deduplication, no reformatting
\* after the validity filters.
C12_CanonicalOrder == InCanonicalOrder(s_steps) /\ InCanonicalOrder(p_steps)

\* The order of the steps in the two mains.
SalesOrder ==
    <<"normalize_column_names", "format_string_columns", "remove_duplicates",
      "handle_missing_values", "remove_outliers", "rename_columns">>

ProductsOrder ==
    <<"normalize_column_names", "format_string_columns", "remove_duplicates",
      "handle_missing_values", "remove_outliers", "validate_data",
      "standardize_formats">>

IsPrefix(s, t) == Len(s) <= Len(t) /\ s = SubSeq(t, 1, Len(s))

\* C12 as amended: each preparer first normalizes the column names and
\* reformats the string columns, then deduplicates, fills missing values and
\* discards invalid rows (remove_outliers, for products then validate_data);
\* last, the sales preparer renames columns and the products preparer
\* standardizes formats.  A finished run has run every step, once.
C12_ActualOrder ==
    /\ IsPrefix(s_steps, SalesOrder)
    /\ IsPrefix(p_steps, ProductsOrder)
    /\ s_pc \in {"save_prepared_data", "done"} => s_steps = SalesOrder
    /\ p_pc \in {"save_prepared_data", "done"} => p_steps = ProductsOrder

\* A products run that finished with rows to save, all its steps run.
C12_Witness ==
    /\ p_pc = "done"
    /\ p_steps = ProductsOrder
    /\ p_saved.rows # <<>>

\* ------------------------------------------------------------------------
\* Properties of the cube builder (checked under SpecCube)
\* ------------------------------------------------------------------------
CubeBuilt == c_pc = "done" /\ c_cube.error = "none"

\* One name per (column, function) pair of a mapping, in mapping order.
RECURSIVE PairNames(_)
PairNames(metrics) ==
    IF metrics = <<>> THEN <<>>
    ELSE LET m == Head(metrics)
         IN  [j \in 1..Len(m.agg_funcs) |-> m.column \o <<"_">> \o m.agg_funcs[j]]
                 \o PairNames(Tail(metrics))

Layout(dimensions, metrics) ==
    dimensions \o PairNames(metrics) \o <<sale_ids, avg_transaction_size>>

\* The rows (1,10,a), (1,20,b), (2,5,c), with the sale ids a, b, c as 1, 2, 3.
ExampleCall ==
    /\ [i \in 1..Len(c_sales_df) |->
           <<c_sales_df[i].customer_id, c_sales_df[i].sale_amount, c_sales_df[i].sale_id>>]
         = << <<Cell(1), Cell(10), Cell(1)>>,
              <<Cell(1), Cell(20), Cell(2)>>,
              <<Cell(2), Cell(5), Cell(3)>> >>
    /\ c_dimensions = <<customer_id>>
    /\ c_metrics = MainMetrics

ExampleRows ==
    << <<Cell(1), Cell(30), Cell(2), <<Cell(1), Cell(2)>>, [num |-> 15, den |-> 1]>>,
       <<Cell(2), Cell(5), Cell(1), <<Cell(3)>>, [num |-> 5, den |-> 1]>> >>

ExampleHolds == ExampleCall => (c_cube.error = "none" /\ c_cube.rows = ExampleRows)

CubeValue(row, name) == row[PositionOf(c_cube.columns, name)]

\* The source rows whose sale_id is in a list of ids.
SourceIndexes(ids) == {k \in 1..Len(c_sales_df) : c_sales_df[k].sale_id \in Range(ids)}

RECURSIVE SumAmounts(_)
SumAmounts(indexes) ==
    IF indexes = {} THEN 0
    ELSE LET k == CHOOSE x \in indexes : TRUE
         IN  c_sales_df[k].sale_amount[1] + SumAmounts(indexes \ {k})

\* C7: traceability: every cube row lists at least one sale id, and the sum
\* of sale_amount and the count of sale_id over the source rows it lists are
\* the row's sale_amount_sum and sale_id_count.
C7_Traceability ==
    CubeBuilt
        => \A r \in 1..Len(c_cube.rows) :
              LET row == c_cube.rows[r]
                  traced == SourceIndexes(CubeValue(row, sale_ids))
              IN  /\ CubeValue(row, sale_ids) # <<>>
                  /\ CubeValue(row, sale_amount_sum) = Cell(SumAmounts(traced))
                  /\ CubeValue(row, sale_id_count) = Cell(Cardinality(traced))

\* A cube with a row that aggregates several source rows, and a second row.
C7_Witness ==
    /\ CubeBuilt
    /\ Len(c_cube.rows) >= 2
    /\ \E r \in 1..Len(c_cube.rows) : Len(CubeValue(c_cube.rows[r], sale_ids)) >= 2

\* The cube rows a source row contributes to.
CubeRowsOf(k) ==
    {r \in 1..Len(c_cube.rows) :
        c_sales_df[k].sale_id \in Range(CubeValue(c_cube.rows[r], sale_ids))}

\* C10: a missing dimension value is a value of its own: every source row
\* contributes to exactly one cube row, and two source rows share their cube
\* row exactly when all their dimension values are equal.
C10_NullIsAGroup ==
    CubeBuilt
        => /\ \A k \in 1..Len(c_sales_df) : Cardinality(CubeRowsOf(k)) = 1
           /\ \A k, l \in 1..Len(c_sales_df) :
                 (CubeRowsOf(k) = CubeRowsOf(l))
                     <=> (KeyOf(c_sales_df[k], c_dimensions) = KeyOf(c_sales_df[l], c_dimensions))

\* C11 (SpecCubeCall): create_olap_cube never returns a cube row whose
\* avg_transaction_size is the quotient by a zero sale_id_count (infinity, or
\* NaN for 0 / 0): a zero denominator gives an error or an explicit null.
C11_NoSilentZeroDivision ==
    CubeBuilt
        => \A r \in 1..Len(c_cube.rows) :
              LET avg == CubeValue(c_cube.rows[r], avg_transaction_size)
              IN  avg = NULL \/ avg.den # 0

\* The source rows of the group a cube row stands for: those whose dimension
\* values are the row's.
GroupIndexes(row) ==
    {k \in 1..Len(c_sales_df) :
        KeyOf(c_sales_df[k], c_dimensions) = SubSeq(row, 1, Len(c_dimensions))}

\* C14 (SpecCubeCall): traceability order: the sale_ids of every cube row are
\* the sale_id values of the source rows of that row's group, one entry per
\* source row, in the order the rows have in the input.
C14_FirstSeenOrder ==
    CubeBuilt
        => \A r \in 1..Len(c_cube.rows) :
              IsRestriction(CubeValue(c_cube.rows[r], sale_ids),
                            Column(c_sales_df, sale_id),
                            GroupIndexes(c_cube.rows[r]))

\* Two groups, one of them with the sale ids 2 then 1 in input order.
C14_Witness ==
    /\ CubeBuilt
    /\ Len(c_cube.rows) = 2
    /\ \E r \in 1..Len(c_cube.rows) :
          CubeValue(c_cube.rows[r], sale_ids) = <<Cell(2), Cell(1)>>

\* ------------------------------------------------------------------------
\* Properties of generate_column_names (checked under SpecNames)
\* ------------------------------------------------------------------------
\* C15: generate_column_names is collision-free: the list it returns for a
\* dimensions list and a metrics mapping (distinct columns, names that may
\* contain or end with '_', functions that may be empty) holds no name twice.
C15_NamesCollisionFree ==
    n_pc = "done" => ~HasDuplicates(n_names)

====
